---- MODULE Spec2Model ----
(***************************************************************************)
(* Model of src/main.py: download_and_process_data, divide_data and        *)
(* extract_data, with the folder of chunk files, the metadata file and the *)
(* output files as state.                                                  *)
(*                                                                         *)
(* Numbers.  Coordinates are fixed-point numbers.  One "unit" is 1e-6      *)
(* degree, the resolution of the "{x:.6f}" in a chunk's file name; every   *)
(* coordinate of the model is an integer number of sub-units, SubUnits of  *)
(* them to a unit.  Feature and query coordinates are whole units, the     *)
(* grid (x_min + i * grid_size) falls on sub-units.  Sums, differences,    *)
(* products, min and max are exact; math.sqrt rounds to the nearest        *)
(* sub-unit, as the floating-point sqrt rounds to the nearest double.      *)
(***************************************************************************)
EXTENDS Integers, Sequences, FiniteSets, TLC

\* Sub-units per unit (1e-6 degree): the resolution of the fixed-point numbers.
SubUnits == 100

\* The most features in a downloaded collection.
MaxFeatures == 3

\* The longest side, in units, of the bounding boxes of BoxCollections.
MaxSide == 5

\* "Aim for approximately 100 chunks": chunk_area = area / 100.
TargetChunks == 100

---------------------------------------------------------------------------
\* Geometry: shapely's box(minx, miny, maxx, maxy), bounds and intersects.

box(x1, y1, x2, y2) == [x_min |-> x1, y_min |-> y1, x_max |-> x2, y_max |-> y2]

Min(a, b) == IF a <= b THEN a ELSE b

Max(a, b) == IF a >= b THEN a ELSE b

\* a.intersects(b) for two axis-aligned closed rectangles (touching counts).
intersects(a, b) ==
    /\ a.x_min <= b.x_max /\ b.x_min <= a.x_max
    /\ a.y_min <= b.y_max /\ b.y_min <= a.y_max

U(n) == n * SubUnits

Point(x, y) == box(U(x), U(y), U(x), U(y))

---------------------------------------------------------------------------
\* The features a download can hold: a geometry and the value of its
\* 'properties' column as a chunk file returns it.  Payload kinds:
\*   "object"    a string holding a JSON object
\*   "malformed" a string that is not JSON        (json.loads: JSONDecodeError)
\*   "nonstring" not a string at all, e.g. None   (json.loads: TypeError)
Catalogue ==
    << [geom |-> Point(0, 0), payload |-> "object"],
       [geom |-> Point(0, 0), payload |-> "nonstring"],
       [geom |-> Point(0, 0), payload |-> "malformed"],
       [geom |-> Point(0, 0), payload |-> "object"],
       [geom |-> box(U(0), U(0), U(1), U(1)), payload |-> "object"],
       [geom |-> Point(10, 10), payload |-> "object"],
       [geom |-> Point(20, 10), payload |-> "object"] >>

Selections ==
    {S \in SUBSET (1..Len(Catalogue)) : Cardinality(S) \in 1..MaxFeatures}

Ordered(S) ==
    CHOOSE s \in [1..Cardinality(S) -> S] :
        \A a, b \in 1..Cardinality(S) : a < b => s[a] < s[b]

\* pd.concat(all_data): the rows in order, a row's identity is its position.
Collection(S) ==
    LET s == Ordered(S)
    IN  [n \in 1..Cardinality(S) |->
            [id |-> n, geom |-> Catalogue[s[n]].geom,
             payload |-> Catalogue[s[n]].payload]]

Collections == {Collection(S) : S \in Selections}

\* Collections of two points at opposite corners of a box: one for every
\* box with sides of 1..MaxSide units at one of two origins.
BoxCollections ==
    {<< [id |-> 1, geom |-> Point(o[1], o[2]), payload |-> "object"],
        [id |-> 2, geom |-> Point(o[1] + w, o[2] + h), payload |-> "object"] >> :
        o \in {<<0, 0>>, <<3, 7>>}, w \in 1..MaxSide, h \in 1..MaxSide}

MinOf(S) == CHOOSE m \in S : \A n \in S : m <= n

MaxOf(S) == CHOOSE m \in S : \A n \in S : m >= n

\* combined_gdf.total_bounds
total_bounds(g) ==
    box(MinOf({g[n].geom.x_min : n \in 1..Len(g)}),
        MinOf({g[n].geom.y_min : n \in 1..Len(g)}),
        MaxOf({g[n].geom.x_max : n \in 1..Len(g)}),
        MaxOf({g[n].geom.y_max : n \in 1..Len(g)}))

---------------------------------------------------------------------------
\* divide_data: the grid.

\* math.sqrt(area / 100), rounded to the nearest sub-unit:
\* the n with (n - 1/2)^2 <= area / 100 < (n + 1/2)^2.
GridSize(b) ==
    LET area == (b.x_max - b.x_min) * (b.y_max - b.y_min)
    IN  CHOOSE n \in 0..Max(b.x_max - b.x_min, b.y_max - b.y_min) :
            /\ n = 0 \/ (2 * n - 1) * (2 * n - 1) * TargetChunks <= 4 * area
            /\ 4 * area < (2 * n + 1) * (2 * n + 1) * TargetChunks

CeilDiv(a, b) == (a + b - 1) \div b

\* np.arange(start, stop, step) for step > 0: ceil((stop - start) / step)
\* values start + n * step.
arange(start, stop, step) ==
    [n \in 1..(IF stop > start THEN CeilDiv(stop - start, step) ELSE 0) |->
        start + (n - 1) * step]

CellUnclipped(x, y, g, b) == box(x, y, x + g, y + g)

\* box(x, y, min(x + grid_size, x_max), min(y + grid_size, y_max))
Cell(x, y, g, b) == box(x, y, Min(x + g, b.x_max), Min(y + g, b.y_max))

\* "{x:.6f}": x rounded to a whole unit, ties to even (x >= 0).
Format6(x) ==
    LET q == x \div SubUnits
        r == x % SubUnits
    IN  IF 2 * r < SubUnits THEN q
        ELSE IF 2 * r > SubUnits THEN q + 1
        ELSE IF q % 2 = 0 THEN q ELSE q + 1

\* f"{location}_{x:.6f}_{y:.6f}.geojson", for the one location of the model.
Filename(x, y) == <<Format6(x), Format6(y)>>

\* gdf[gdf.intersects(cell)]
Select(g, r) ==
    LET Hit(f) == intersects(f.geom, r) IN SelectSeq(g, Hit)

\* metadata[filename] = coords on a dict that keeps insertion order: an
\* existing key keeps its place and takes the new value.
DictSet(d, key, val) ==
    IF \E n \in 1..Len(d) : d[n].name = key
    THEN [n \in 1..Len(d) |->
            IF d[n].name = key THEN [name |-> key, coords |-> val] ELSE d[n]]
    ELSE Append(d, [name |-> key, coords |-> val])

\* Writing a file creates it or replaces its content.
FilePut(fs, name, content) ==
    [n \in DOMAIN fs \cup {name} |-> IF n = name THEN content ELSE fs[n]]

FileDel(fs, name) == [n \in DOMAIN fs \ {name} |-> fs[n]]

NoFiles == [n \in {} |-> <<>>]

---------------------------------------------------------------------------
VARIABLES
    gdf,            \* the downloaded collection (combined_gdf)
    bounds,         \* combined_gdf.total_bounds
    folderExists,   \* the output folder of the download is the input folder
    dpc,            \* where download_and_process_data / divide_data stands
    grid_size, x_ranges, y_ranges, i, j, metadata,   \* divide_data's locals
    chunkFiles,     \* chunk file name -> rows
    metaFile,       \* the metadata file
    tampered,       \* storage was changed between partitioning and extraction
    epc,            \* where extract_data stands
    output_file,
    confirmed,      \* the path the user agreed to overwrite, if any
    top_left, bottom_right, bbox,
    loaded,         \* extract_data's metadata
    idx, intersecting_files, k, all_features,
    outFiles,       \* output path -> content
    exitMsg

dvars == <<gdf, bounds, folderExists, dpc, grid_size, x_ranges, y_ranges, i, j,
           metadata, chunkFiles, metaFile, tampered>>

evars == <<epc, output_file, confirmed, top_left, bottom_right, bbox,
           loaded, idx, intersecting_files, k, all_features, outFiles, exitMsg>>

vars == <<dvars, evars>>

NoBox == box(0, 0, 0, 0)

CroppedFile == <<"cropped_file", ".geojson">>

OldFile == <<"old", ".geojson">>

\* The output files that exist before extract_data is called.
OldOutputs == {CroppedFile, OldFile}

OldContent == [written |-> FALSE, features |-> <<>>]

\* The state before the download of one of the given collections.
Start(collections) ==
    /\ gdf \in collections
    /\ bounds = NoBox
    /\ folderExists = FALSE
    /\ dpc = "start"
    /\ grid_size = 0 /\ x_ranges = <<>> /\ y_ranges = <<>> /\ i = 0 /\ j = 0
    /\ metadata = <<>>
    /\ chunkFiles = NoFiles
    /\ metaFile = [state |-> "absent", entries |-> <<>>]
    /\ tampered = FALSE
    /\ epc = "idle"
    /\ output_file = <<>> /\ confirmed = <<>>
    /\ top_left = <<0, 0>> /\ bottom_right = <<0, 0>> /\ bbox = NoBox
    /\ loaded = <<>> /\ idx = <<>> /\ intersecting_files = <<>> /\ k = 0
    /\ all_features = <<>>
    /\ outFiles = [p \in OldOutputs |-> OldContent]
    /\ exitMsg = "none"

Init == Start(Collections)

---------------------------------------------------------------------------
\* download_and_process_data, lines 33 and 50-56.

\* --download X --divide: makedirs, total_bounds, then divide_data.
Download ==
    /\ dpc = "start" /\ epc = "idle"
    /\ folderExists' = TRUE
    /\ bounds' = total_bounds(gdf)
    /\ dpc' = "divide"
    /\ UNCHANGED <<gdf, grid_size, x_ranges, y_ranges, i, j, metadata,
                   chunkFiles, metaFile, tampered>>
    /\ UNCHANGED evars

\* --download X without --divide: the whole collection goes to one file,
\* no chunk and no metadata is written.
DownloadOnly ==
    /\ dpc = "start" /\ epc = "idle"
    /\ folderExists' = TRUE
    /\ bounds' = total_bounds(gdf)
    /\ dpc' = "undivided"
    /\ UNCHANGED <<gdf, grid_size, x_ranges, y_ranges, i, j, metadata,
                   chunkFiles, metaFile, tampered>>
    /\ UNCHANGED evars

\* divide_data, lines 63-73.  np.arange with a zero step divides by it: the
\* length is 0/0 or w/0 and arange raises, which nothing catches.
DivideStart ==
    /\ dpc = "divide"
    /\ grid_size' = GridSize(bounds)
    /\ IF grid_size' = 0
       THEN /\ dpc' = "raised"
            /\ UNCHANGED <<x_ranges, y_ranges, i, j>>
       ELSE /\ x_ranges' = arange(bounds.x_min, bounds.x_max, grid_size')
            /\ y_ranges' = arange(bounds.y_min, bounds.y_max, grid_size')
            /\ i' = 1 /\ j' = 1
            /\ dpc' = "loop"
    /\ metadata' = <<>>
    /\ UNCHANGED <<gdf, bounds, folderExists, chunkFiles, metaFile, tampered>>
    /\ UNCHANGED evars

\* One pass of the inner loop, lines 76-89.
DivideCell ==
    /\ dpc = "loop" /\ i <= Len(x_ranges)
    /\ LET x == x_ranges[i]
           y == y_ranges[j]
           cell == Cell(x, y, grid_size, bounds)
           cell_gdf == Select(gdf, cell)
       IN  IF cell_gdf # <<>>
           THEN /\ chunkFiles' = FilePut(chunkFiles, Filename(x, y), cell_gdf)
                /\ metadata' = DictSet(metadata, Filename(x, y), cell)
           ELSE UNCHANGED <<chunkFiles, metadata>>
    /\ IF j < Len(y_ranges)
       THEN j' = j + 1 /\ i' = i
       ELSE j' = 1 /\ i' = i + 1
    /\ UNCHANGED <<gdf, bounds, folderExists, dpc, grid_size, x_ranges,
                   y_ranges, metaFile, tampered>>
    /\ UNCHANGED evars

\* Lines 92-93: json.dump(metadata, f).
DivideSave ==
    /\ dpc = "loop" /\ i > Len(x_ranges)
    /\ metaFile' = [state |-> "json", entries |-> metadata]
    /\ dpc' = "done"
    /\ UNCHANGED <<gdf, bounds, folderExists, grid_size, x_ranges, y_ranges,
                   i, j, metadata, chunkFiles, tampered>>
    /\ UNCHANGED evars

---------------------------------------------------------------------------
\* Storage changed by hand after partitioning (at most once).

\* A chunk file is deleted.
RemoveChunk ==
    /\ dpc = "done" /\ epc = "idle" /\ ~tampered
    /\ \E name \in DOMAIN chunkFiles : chunkFiles' = FileDel(chunkFiles, name)
    /\ tampered' = TRUE
    /\ UNCHANGED <<gdf, bounds, folderExists, dpc, grid_size, x_ranges,
                   y_ranges, i, j, metadata, metaFile>>
    /\ UNCHANGED evars

SwapX(c) == [c EXCEPT !.x_min = c.x_max, !.x_max = c.x_min]

DropXMax(c) == [key \in DOMAIN c \ {"x_max"} |-> c[key]]

\* The metadata file is edited: one entry gets x_min > x_max or loses a key
\* (the file stays well-formed JSON), or the file stops being JSON at all.
CorruptMetadata ==
    /\ dpc = "done" /\ epc = "idle" /\ ~tampered
    /\ \/ \E n \in 1..Len(metaFile.entries) :
            \E Edit \in {"swap", "drop"} :
                metaFile' = [metaFile EXCEPT !.entries[n].coords =
                                IF Edit = "swap" THEN SwapX(@) ELSE DropXMax(@)]
       \/ metaFile' = [state |-> "garbage", entries |-> <<>>]
    /\ tampered' = TRUE
    /\ UNCHANGED <<gdf, bounds, folderExists, dpc, grid_size, x_ranges,
                   y_ranges, i, j, metadata, chunkFiles>>
    /\ UNCHANGED evars

---------------------------------------------------------------------------
\* extract_data.

FreshFile == <<"fresh", ".geojson">>

\* --output-file: the default, which exists here, or a path that does not.
OutputArgs == {CroppedFile, FreshFile}

\* What the user may type at "Please enter a new file name".
NewNames == {<<"old">>, OldFile, <<"fresh">>}

\* What the user may type at the overwrite prompt.
Responses == {"y", "Y", "n", "q"}

\* str.lower() on the answers of the model.
lower(r) == IF r = "Y" THEN "y" ELSE IF r = "N" THEN "n" ELSE r

\* new_name if new_name.endswith('.geojson') else new_name + '.geojson'
WithExtension(name) ==
    IF name[Len(name)] = ".geojson" THEN name ELSE Append(name, ".geojson")

\* (latitude, longitude) corner points of a query, in units.
QueryPoints == {<<U(lat), U(lon)>> : lat \in {0, 1}, lon \in {0, 1, 10}}

QueryBoxAsGiven(tl, br) == box(tl[2], br[1], br[2], tl[1])

\* Lines 115-118: [1] is the longitude (x), [0] the latitude (y).
QueryBox(tl, br) ==
    box(Min(tl[2], br[2]), Min(tl[1], br[1]), Max(tl[2], br[2]), Max(tl[1], br[1]))

Keys == {"x_min", "y_min", "x_max", "y_max"}

\* Lines 135-136 on one entry: a missing key raises KeyError; rtree's insert
\* raises RTreeError for a minimum greater than its maximum.
InsertOutcome(c) ==
    IF ~(Keys \subseteq DOMAIN c) THEN "KeyError"
    ELSE IF c.x_min > c.x_max \/ c.y_min > c.y_max THEN "RTreeError"
    ELSE "ok"

\* The entries before the first one whose insert raises.
Inserted(meta) ==
    LET bad == {n \in 1..Len(meta) : InsertOutcome(meta[n].coords) # "ok"}
        stop == IF bad = {} THEN Len(meta) + 1
                ELSE CHOOSE n \in bad : \A m \in bad : n <= m
    IN  [n \in 1..(stop - 1) |-> meta[n].coords]

IndexOutcome(meta) ==
    IF Len(Inserted(meta)) = Len(meta) THEN "ok"
    ELSE InsertOutcome(meta[Len(Inserted(meta)) + 1].coords)

\* Lines 139-145: the ids the index returns for the query box (here in
\* ascending order; rtree fixes none), each mapped back to its file name by
\* position and tested again with bbox.intersects(box(...)).
Candidates(meta, index, q) ==
    LET Hit(n) == intersects(index[n], q) /\ intersects(q, meta[n].coords)
        RECURSIVE Files(_)
        Files(n) ==
            IF n = 0 THEN <<>>
            ELSE IF Hit(n) THEN Append(Files(n - 1), meta[n].name)
            ELSE Files(n - 1)
    IN  Files(Len(index))

Unfiltered(rows, q) == rows

\* Line 157: gdf[gdf.intersects(bbox)]
Filtered(rows, q) == Select(rows, q)

\* Lines 158-170 on the rows from the n-th on, after acc was appended.  A
\* JSONDecodeError skips the row; a TypeError is not caught by line 167, ends
\* the loop and is caught by line 171.
RECURSIVE Decoded(_, _, _)
Decoded(rows, n, acc) ==
    IF n > Len(rows) THEN acc
    ELSE IF rows[n].payload = "object"
         THEN Decoded(rows, n + 1, Append(acc, [id |-> rows[n].id, geom |-> rows[n].geom]))
    ELSE IF rows[n].payload = "malformed"
         THEN Decoded(rows, n + 1, acc)
    ELSE acc

\* Lines 156-173: what one present chunk file adds to all_features.
Contribution(rows, q) == Decoded(Filtered(rows, q), 1, <<>>)

BreakAtMissing(n, last) == last + 1

\* Lines 152-154: `continue` goes on with the next file.
SkipMissing(n, last) == n + 1

\* Lines 97-102.
ExtractStart ==
    /\ epc = "idle" /\ dpc \in {"start", "undivided", "raised", "done"}
    /\ IF ~folderExists
       THEN /\ epc' = "exit" /\ exitMsg' = "no input folder"
            /\ UNCHANGED output_file
       ELSE /\ \E arg \in OutputArgs :
                /\ output_file' = arg
                /\ epc' = IF arg \in DOMAIN outFiles THEN "prompt" ELSE "box"
            /\ UNCHANGED exitMsg
    /\ UNCHANGED <<confirmed, top_left, bottom_right, bbox, loaded, idx,
                   intersecting_files, k, all_features, outFiles>>
    /\ UNCHANGED dvars

\* Lines 104-107: the answer is y.
PromptYes ==
    /\ epc = "prompt"
    /\ \E r \in Responses : lower(r) = "y"
    /\ confirmed' = output_file
    /\ epc' = "box"
    /\ UNCHANGED <<output_file, top_left, bottom_right, bbox, loaded, idx,
                   intersecting_files, k, all_features, outFiles, exitMsg>>
    /\ UNCHANGED dvars

\* Lines 108-111: the answer is n and a new name follows.
PromptNo ==
    /\ epc = "prompt"
    /\ \E r \in Responses : lower(r) = "n"
    /\ \E new_name \in NewNames : output_file' = WithExtension(new_name)
    /\ epc' = "box"
    /\ UNCHANGED <<confirmed, top_left, bottom_right, bbox, loaded, idx,
                   intersecting_files, k, all_features, outFiles, exitMsg>>
    /\ UNCHANGED dvars

\* Lines 112-113: any other answer asks again.
PromptInvalid ==
    /\ epc = "prompt"
    /\ \E r \in Responses : lower(r) \notin {"y", "n"}
    /\ UNCHANGED evars
    /\ UNCHANGED dvars

\* Lines 115-118.
Normalize ==
    /\ epc = "box"
    /\ \E tl \in QueryPoints, br \in QueryPoints :
        /\ top_left' = tl /\ bottom_right' = br
        /\ bbox' = QueryBox(tl, br)
    /\ epc' = "metadata"
    /\ UNCHANGED <<output_file, confirmed, loaded, idx, intersecting_files, k,
                   all_features, outFiles, exitMsg>>
    /\ UNCHANGED dvars

\* Lines 120-130.
LoadMetadata ==
    /\ epc = "metadata"
    /\ IF metaFile.state = "absent"
       THEN epc' = "exit" /\ exitMsg' = "metadata not found" /\ UNCHANGED loaded
       ELSE IF metaFile.state = "garbage"
       THEN epc' = "exit" /\ exitMsg' = "invalid metadata" /\ UNCHANGED loaded
       ELSE epc' = "index" /\ loaded' = metaFile.entries /\ UNCHANGED exitMsg
    /\ UNCHANGED <<output_file, confirmed, top_left, bottom_right, bbox, idx,
                   intersecting_files, k, all_features, outFiles>>
    /\ UNCHANGED dvars

\* Lines 133-136.  An insert that raises ends the program with a traceback.
BuildIndex ==
    /\ epc = "index"
    /\ idx' = Inserted(loaded)
    /\ IF IndexOutcome(loaded) = "ok"
       THEN epc' = "search" /\ UNCHANGED exitMsg
       ELSE epc' = "exit" /\ exitMsg' = IndexOutcome(loaded)
    /\ UNCHANGED <<output_file, confirmed, top_left, bottom_right, bbox, loaded,
                   intersecting_files, k, all_features, outFiles>>
    /\ UNCHANGED dvars

\* Lines 139-149.
FindFiles ==
    /\ epc = "search"
    /\ intersecting_files' = Candidates(loaded, idx, bbox)
    /\ k' = 1
    /\ epc' = "files"
    /\ UNCHANGED <<output_file, confirmed, top_left, bottom_right, bbox, loaded,
                   idx, all_features, outFiles, exitMsg>>
    /\ UNCHANGED dvars

\* One pass of the loop of lines 150-173.
ExtractFile ==
    /\ epc = "files" /\ k <= Len(intersecting_files)
    /\ LET filename == intersecting_files[k]
       IN  IF filename \notin DOMAIN chunkFiles
           THEN /\ k' = SkipMissing(k, Len(intersecting_files))
                /\ UNCHANGED all_features
           ELSE /\ all_features' = all_features \o Contribution(chunkFiles[filename], bbox)
                /\ k' = k + 1
    /\ UNCHANGED <<epc, output_file, confirmed, top_left, bottom_right, bbox,
                   loaded, idx, intersecting_files, outFiles, exitMsg>>
    /\ UNCHANGED dvars

\* Lines 175-184.
WriteResult ==
    /\ epc = "files" /\ k > Len(intersecting_files)
    /\ IF all_features # <<>>
       THEN outFiles' = FilePut(outFiles, output_file,
                                [written |-> TRUE, features |-> all_features])
       ELSE UNCHANGED outFiles
    /\ epc' = "done"
    /\ UNCHANGED <<output_file, confirmed, top_left, bottom_right, bbox, loaded,
                   idx, intersecting_files, k, all_features, exitMsg>>
    /\ UNCHANGED dvars

---------------------------------------------------------------------------
Next ==
    \/ Download \/ DownloadOnly \/ DivideStart \/ DivideCell \/ DivideSave
    \/ RemoveChunk \/ CorruptMetadata
    \/ ExtractStart \/ PromptYes \/ PromptNo \/ PromptInvalid
    \/ Normalize \/ LoadMetadata \/ BuildIndex \/ FindFiles
    \/ ExtractFile \/ WriteResult

Spec == Init /\ [][Next]_vars

\* The same program on collections whose payloads all decode.
InitDecodable ==
    /\ Init
    /\ \A n \in 1..Len(gdf) : gdf[n].payload = "object"

SpecDecodable == InitDecodable /\ [][Next]_vars

\* The same program on the two-point collections of every bounding box.
InitBoxes == Start(BoxCollections)

SpecBoxes == InitBoxes /\ [][Next]_vars
---------------------------------------------------------------------------
\* Properties.

NumCells == Len(x_ranges) * Len(y_ranges)

\* The n-th cell of the grid, in the order the loops visit them.
GridCell(n) ==
    Cell(x_ranges[((n - 1) \div Len(y_ranges)) + 1],
         y_ranges[((n - 1) % Len(y_ranges)) + 1], grid_size, bounds)

Area(r) == (r.x_max - r.x_min) * (r.y_max - r.y_min)

Inside(r, b) ==
    /\ b.x_min <= r.x_min /\ r.x_min <= r.x_max /\ r.x_max <= b.x_max
    /\ b.y_min <= r.y_min /\ r.y_min <= r.y_max /\ r.y_max <= b.y_max

\* Two rectangles share no interior point: they meet on an edge at most.
EdgeOnly(a, b) ==
    \/ a.x_max <= b.x_min \/ b.x_max <= a.x_min
    \/ a.y_max <= b.y_min \/ b.y_max <= a.y_min

\* The areas of the cells lo..hi, added up by halves.
RECURSIVE AreaOfCells(_, _)
AreaOfCells(lo, hi) ==
    IF lo > hi THEN 0
    ELSE IF lo = hi THEN Area(GridCell(lo))
    ELSE AreaOfCells(lo, (lo + hi) \div 2) + AreaOfCells(((lo + hi) \div 2) + 1, hi)

GridReady == dpc = "loop" /\ i = 1 /\ j = 1

InRows(f, rows) == \E r \in 1..Len(rows) : rows[r] = f

\* C2: after divide_data every feature is in the chunk file of every cell
\* its geometry intersects, and the metadata maps that file name to the
\* cell's rectangle.
C2_FeatureInEveryTouchedChunk ==
    (dpc = "done" /\ ~tampered) =>
        \A f \in 1..Len(gdf), n \in 1..NumCells :
            intersects(gdf[f].geom, GridCell(n)) =>
                LET name == Filename(GridCell(n).x_min, GridCell(n).y_min)
                IN  /\ name \in DOMAIN chunkFiles
                    /\ InRows(gdf[f], chunkFiles[name])
                    /\ \E e \in 1..Len(metaFile.entries) :
                        /\ metaFile.entries[e].name = name
                        /\ metaFile.entries[e].coords = GridCell(n)

\* C3: partitioned, untouched and queried with the full bounding box, the
\* output holds every feature of the collection at least once, holds at
\* least as many features as the collection, and only features that
\* intersect the region.
C3_FullBoxReturnsAll ==
    (dpc = "done" /\ ~tampered /\ epc = "done" /\ bbox = bounds) =>
        /\ \A f \in 1..Len(gdf) :
            \E o \in 1..Len(all_features) : all_features[o].id = gdf[f].id
        /\ Len(all_features) >= Len(gdf)
        /\ \A o \in 1..Len(all_features) : intersects(all_features[o].geom, bbox)

Degenerate(b) == b.x_min = b.x_max \/ b.y_min = b.y_max

\* C4: on a degenerate bounding box divide_data ends normally with exactly
\* one chunk, holding the whole collection, and one metadata entry.
C4_DegenerateOneChunk ==
    (Degenerate(bounds) /\ dpc \in {"raised", "done"}) =>
        /\ dpc = "done"
        /\ Cardinality(DOMAIN chunkFiles) = 1
        /\ \A name \in DOMAIN chunkFiles : chunkFiles[name] = gdf
        /\ metaFile.state = "json" /\ Len(metaFile.entries) = 1

Present(n) == intersecting_files[n] \in DOMAIN chunkFiles

\* What the present ones of the first n candidate files contribute to a
\* query with the box q.
RECURSIVE FromPresentIn(_, _)
FromPresentIn(n, q) ==
    IF n = 0 THEN <<>>
    ELSE FromPresentIn(n - 1, q) \o
         (IF Present(n) THEN Decoded(Select(chunkFiles[intersecting_files[n]], q), 1, <<>>)
          ELSE <<>>)

FromPresent(n) == FromPresentIn(n, bbox)

\* C5: once a candidate file was found missing, extraction still visits
\* every later candidate; what it has collected is what the present files
\* contribute, and that is what it writes.
C5_MissingChunkSkipped ==
    (epc \in {"files", "done"} /\ \E n \in 1..Len(intersecting_files) : n < k /\ ~Present(n)) =>
        /\ k <= Len(intersecting_files) + 1
        /\ all_features = FromPresent(k - 1)
        /\ epc = "done" =>
            /\ all_features = FromPresent(Len(intersecting_files))
            /\ all_features # <<>> =>
                outFiles[output_file] = [written |-> TRUE, features |-> all_features]

\* A missing candidate was skipped and a later, present one contributed.
C5_Witness ==
    /\ epc = "done"
    /\ \E n, m \in 1..Len(intersecting_files) :
        /\ n < m /\ ~Present(n) /\ Present(m)
        /\ Decoded(Select(chunkFiles[intersecting_files[m]], bbox), 1, <<>>) # <<>>
    /\ all_features # <<>>

\* C6: of a chunk that was read, every feature that intersects the region
\* and whose payload decodes is in the output, whatever the payloads of the
\* other features of the chunk.
C6_OnlyBadFeatureDropped ==
    epc \in {"files", "done"} =>
        \A n \in 1..Len(intersecting_files) :
            (n < k /\ Present(n)) =>
                LET rows == chunkFiles[intersecting_files[n]]
                IN  \A r \in 1..Len(rows) :
                        (intersects(rows[r].geom, bbox) /\ rows[r].payload = "object") =>
                            \E o \in 1..Len(all_features) : all_features[o].id = rows[r].id

WellOrdered(c) ==
    /\ Keys \subseteq DOMAIN c
    /\ c.x_min <= c.x_max /\ c.y_min <= c.y_max

\* C7: when the metadata file is JSON but holds an entry that is no
\* well-ordered bounding box, extraction ends with the invalid-metadata
\* error, with no index entry inserted and no chunk looked at.
C7_CorruptMetadataRejected ==
    (/\ epc \in {"done", "exit"} /\ exitMsg # "no input folder"
     /\ metaFile.state = "json"
     /\ \E e \in 1..Len(metaFile.entries) : ~WellOrdered(metaFile.entries[e].coords)) =>
        /\ epc = "exit" /\ exitMsg = "invalid metadata"
        /\ idx = <<>> /\ k = 0

Normalized == epc \in {"metadata", "index", "search", "files", "done"}

\* C8: the query box is the same whichever of the two corners comes first
\* and whichever pair of opposite corners of the rectangle is given, it is
\* well-ordered, and the candidate files and the features collected are
\* those of that box.
C8_CornerOrderIrrelevant ==
    Normalized =>
        LET tl == top_left
            br == bottom_right
        IN  /\ bbox = QueryBox(br, tl)
            /\ bbox = QueryBox(<<tl[1], br[2]>>, <<br[1], tl[2]>>)
            /\ bbox = QueryBox(<<br[1], tl[2]>>, <<tl[1], br[2]>>)
            /\ bbox.x_min <= bbox.x_max /\ bbox.y_min <= bbox.y_max
            /\ epc \in {"files", "done"} =>
                intersecting_files = Candidates(loaded, idx, QueryBox(br, tl))
            /\ epc = "done" =>
                /\ all_features = FromPresentIn(Len(intersecting_files), QueryBox(br, tl))
                /\ \A o \in 1..Len(all_features) :
                    intersects(all_features[o].geom, QueryBox(br, tl))

\* The corners came as (bottom-left, top-right) and features were found.
C8_Witness ==
    /\ epc = "done"
    /\ top_left[1] < bottom_right[1] /\ top_left[2] < bottom_right[2]
    /\ all_features # <<>>

MetadataIntact ==
    /\ metaFile.state = "json"
    /\ \A e \in 1..Len(metaFile.entries) : WellOrdered(metaFile.entries[e].coords)

NoFeatureIn(q) == \A f \in 1..Len(gdf) : ~intersects(gdf[f].geom, q)

\* C9: after partitioning, a query with a region no feature intersects
\* never exits with an error, collects nothing and writes nothing.
C9_EmptyRegionSucceeds ==
    (dpc = "done" /\ MetadataIntact /\ epc \notin {"idle", "prompt", "box"}
     /\ NoFeatureIn(bbox)) =>
        /\ epc # "exit"
        /\ all_features = <<>>
        /\ outFiles = [p \in OldOutputs |-> OldContent]

\* The region overlaps the rectangle of a chunk that was read, and misses
\* every feature.
C9_Witness ==
    /\ dpc = "done" /\ MetadataIntact /\ epc = "done" /\ NoFeatureIn(bbox)
    /\ \E n \in 1..Len(intersecting_files) : Present(n)

\* C10: the file written at the end did not exist before the call or was
\* confirmed for overwrite with 'y'; with no feature kept nothing is written.
C10_NoUnconfirmedOverwrite ==
    epc = "done" =>
        IF all_features = <<>>
        THEN outFiles = [p \in OldOutputs |-> OldContent]
        ELSE output_file \notin OldOutputs \/ confirmed = output_file
====
